---- MODULE Spec2Model ----
(***************************************************************************)
(* iconkeep (src/iconkeep/cli.py): back up and restore the icon of an      *)
(* application bundle.                                                     *)
(*                                                                         *)
(* Strings are sequences of one-character strings, so that lower(),       *)
(* strip(), endswith() and the pathlib accessors are computed character    *)
(* by character as the code computes them.  An absent optional string     *)
(* (None) is the empty sequence: every test the code makes on such a value *)
(* is a truthiness test, which None and "" both fail.                      *)
(* File contents are integers: 0 is "no such file", c > 0 a whole file     *)
(* with content c, -c a truncated copy of c.                               *)
(***************************************************************************)
EXTENDS Integers, Sequences, FiniteSets, TLC

VARIABLES
    fs,      \* bundle path -> directory state (the bundles on disk)
    store,   \* slug -> <data_dir>/<slug>/{manifest.json, icon.icns}
    lastOp,  \* the last command run and what it did
    bk,      \* history: per application, its most recent successful backup
    envLeft, \* changes the environment may still make
    opsLeft, \* commands that may still be run
    batch,   \* the batch loop of main()
    pin,     \* input of a pure function under check
    pout     \* its output

vars == <<fs, store, lastOp, bk, envLeft, opsLeft, batch, pin, pout>>

----------------------------------------------------------------------------
(* Bounds *)

MaxContent == 2   \* distinct icon contents
MaxEnv == 1       \* environment changes in a run
MaxOps == 3       \* commands in a run
MaxPad == 1       \* blanks put around a name
MaxNames == 2     \* entries of an icon file list of Info.plist
MaxList == 2      \* entries of the configured app list

----------------------------------------------------------------------------
(* Characters and strings *)

\* The characters in use, in code point order.
Alphabet ==
    << " ", ".", "/", "A", "B", "C", "F", "I", "O", "P", "R", "S", "U", "X",
       "a", "b", "c", "e", "f", "g", "i", "l", "n", "o", "p", "r", "s", "t",
       "u", "x" >>

Ord(c) == CHOOSE i \in 1..Len(Alphabet) : Alphabet[i] = c

LowerChar(c) ==
    CASE c = "A" -> "a" [] c = "B" -> "b" [] c = "C" -> "c" [] c = "F" -> "f"
      [] c = "I" -> "i" [] c = "O" -> "o" [] c = "P" -> "p" [] c = "R" -> "r"
      [] c = "S" -> "s" [] c = "U" -> "u" [] c = "X" -> "x" [] OTHER -> c

UpperChar(c) ==
    CASE c = "a" -> "A" [] c = "b" -> "B" [] c = "c" -> "C" [] c = "f" -> "F"
      [] c = "i" -> "I" [] c = "o" -> "O" [] c = "p" -> "P" [] c = "r" -> "R"
      [] c = "s" -> "S" [] c = "u" -> "U" [] c = "x" -> "X" [] OTHER -> c

\* str.lower()
RECURSIVE Lower(_)
Lower(s) == IF s = <<>> THEN <<>> ELSE <<LowerChar(Head(s))>> \o Lower(Tail(s))

\* str.endswith(t)
EndsWith(s, t) ==
    Len(s) >= Len(t) /\ SubSeq(s, Len(s) - Len(t) + 1, Len(s)) = t

\* str.strip(): leading and trailing blanks removed
Strip(s) ==
    LET inked == {i \in 1..Len(s) : s[i] # " "}
    IN  IF inked = {} THEN <<>>
        ELSE SubSeq(s, CHOOSE i \in inked : \A j \in inked : i <= j,
                       CHOOSE i \in inked : \A j \in inked : i >= j)

\* s < t in code point order (the order sorted() puts names in)
StrLess(s, t) ==
    \E k \in 0..Len(s) :
        /\ k <= Len(t)
        /\ \A i \in 1..k : s[i] = t[i]
        /\ \/ k = Len(s) /\ k < Len(t)
           \/ k < Len(s) /\ k < Len(t) /\ Ord(s[k + 1]) < Ord(t[k + 1])

DotApp == <<".", "a", "p", "p">>
DotIcns == <<".", "i", "c", "n", "s">>
Slash == <<"/">>

\* Index of the last occurrence of character c in s, 0 if none (str.rfind + 1)
RFind(s, c) ==
    LET hits == {i \in 1..Len(s) : s[i] = c}
    IN  IF hits = {} THEN 0 ELSE CHOOSE i \in hits : \A j \in hits : i >= j

\* PurePath.name: the final component
PathName(p) == SubSeq(p, RFind(p, "/") + 1, Len(p))

\* PurePath.parent (of an absolute or multi-component path)
PathParent(p) ==
    LET i == RFind(p, "/")
    IN  IF i = 0 THEN <<>> ELSE IF i = 1 THEN Slash ELSE SubSeq(p, 1, i - 1)

\* PurePath.suffix: from the last dot of the name, unless that dot starts or
\* ends the name
PathSuffix(p) ==
    LET n == PathName(p)
        i == RFind(n, ".")
    IN  IF 1 < i /\ i < Len(n) THEN SubSeq(n, i, Len(n)) ELSE <<>>

\* PurePath.stem
PathStem(p) ==
    LET n == PathName(p)
        i == RFind(n, ".")
    IN  IF 1 < i /\ i < Len(n) THEN SubSeq(n, 1, i - 1) ELSE n

\* parent / child
Join(a, b) == a \o Slash \o b

\* path.relative_to(base), for a path under base
RelativeTo(p, base) == SubSeq(p, Len(base) + 2, Len(p))

----------------------------------------------------------------------------
(* The disk *)

Foo == <<"F", "o", "o">>
Bar == <<"B", "a", "r">>
FooApp == Foo \o DotApp
BarApp == Bar \o DotApp

RootA == <<"/", "A">>   \* /Applications
RootS == <<"/", "S">>   \* /System/Applications
RootU == <<"/", "U">>   \* ~/Applications

APP_SEARCH_DIRS == <<RootA, RootS, RootU>>

\* The places a bundle can be installed at.
BundlePaths == {Join(RootA, FooApp), Join(RootU, FooApp), Join(RootU, BarApp)}

Apps == {1, 2}

ContentsDir == <<"C", "o", "n", "t", "e", "n", "t", "s">>
ResourcesRel == Join(ContentsDir, <<"R", "e", "s", "o", "u", "r", "c", "e", "s">>)
InfoPlistRel == Join(ContentsDir, <<"I", "n", "f", "o", ".", "p", "l", "i", "s", "t">>)

IcnsA == <<"a">> \o DotIcns
IcnsB == <<"b">> \o DotIcns

\* Icon files a bundle of the lifecycle model may hold in Contents/Resources.
ResNames == {IcnsA, IcnsB}

\* Bundle identifiers in use; the second equals a normalized app name.
IdX == <<"c", ".", "X">>
IdFoo == <<"f", "o", "o">>
Ids == {IdX, IdFoo}

\* Info.plist: st is "missing" (no file), "malformed" (plistlib cannot load
\* it) or "ok"; then bid is CFBundleIdentifier, iconFile CFBundleIconFile,
\* iconFiles CFBundleIconFiles and primaryFiles
\* CFBundleIcons.CFBundlePrimaryIcon.CFBundleIconFiles.  A key that is
\* absent, or is not of the type the code tests for, is the empty value.
MkPlist(st, bid, iconFile, iconFiles, primaryFiles) ==
    [st |-> st, bid |-> bid, iconFile |-> iconFile, iconFiles |-> iconFiles,
     primaryFiles |-> primaryFiles]

NoPlist == MkPlist("missing", <<>>, <<>>, <<>>, <<>>)

NoDir ==
    [dir |-> FALSE, app |-> 0, plist |-> NoPlist, res |-> [f \in ResNames |-> 0]]

\* Path.exists() of a user-typed reference.  The working directory holds no
\* entry named like a reference, so only absolute paths into the modelled
\* tree exist.
PathExists(p) ==
    \/ \E i \in 1..Len(APP_SEARCH_DIRS) : p = APP_SEARCH_DIRS[i]
    \/ \E b \in BundlePaths :
        /\ fs[b].dir
        /\ \/ p = b
           \/ p = Join(b, ContentsDir)
           \/ p = Join(b, InfoPlistRel) /\ fs[b].plist.st # "missing"
           \/ \E f \in ResNames : p = Join(Join(b, ResourcesRel), f) /\ fs[b].res[f] # 0

----------------------------------------------------------------------------
(* Bundle Locator *)

\* The extension test without lower(): only a lowercase ".app" is cut.
NormalizeCaseSensitive(name) ==
    LET cut == IF EndsWith(name, DotApp)
               THEN SubSeq(name, 1, Len(name) - 4)
               ELSE name
    IN  Lower(Strip(cut))

normalize_app_name(name) ==
    LET cut == IF EndsWith(Lower(name), DotApp)
               THEN SubSeq(name, 1, Len(name) - 4)
               ELSE name
    IN  Lower(Strip(cut))

\* for parent in candidate.parents: the nearest ancestor with suffix ".app"
RECURSIVE BundleAncestor(_)
BundleAncestor(p) ==
    IF RFind(p, "/") <= 1 THEN <<>>
    ELSE LET q == PathParent(p)
         IN  IF PathSuffix(q) = DotApp THEN q ELSE BundleAncestor(q)

\* root.rglob("*.app") filtered by the normalized name
MatchesIn(root, target) ==
    {b \in BundlePaths :
        /\ fs[b].dir
        /\ PathParent(b) = root
        /\ EndsWith(PathName(b), DotApp)
        /\ normalize_app_name(PathName(b)) = target}

\* The roots are searched in order; within a root the order rglob yields
\* the bundles in is the file system's, so any match of the first root that
\* has one may be returned.
RECURSIVE SearchRoots(_, _)
SearchRoots(i, target) ==
    IF i > Len(APP_SEARCH_DIRS) THEN {}
    ELSE IF MatchesIn(APP_SEARCH_DIRS[i], target) # {}
         THEN MatchesIn(APP_SEARCH_DIRS[i], target)
         ELSE SearchRoots(i + 1, target)

Located(p) == [err |-> "ok", path |-> p]
Failed(e) == [err |-> e, path |-> <<>>]

\* The set of results find_app_bundle may give.
find_app_bundle(app_name) ==
    IF PathExists(app_name)
    THEN IF PathSuffix(app_name) = DotApp THEN {Located(app_name)}
         ELSE IF BundleAncestor(app_name) # <<>>
              THEN {Located(BundleAncestor(app_name))}
              ELSE {Failed("InvalidBundle")}
    ELSE LET found == SearchRoots(1, normalize_app_name(app_name))
         IN  IF found = {} THEN {Failed("NotFound")}
             ELSE {Located(b) : b \in found}

----------------------------------------------------------------------------
(* Metadata Reader *)

\* "MissingMetadata" is an IconkeepError; "MalformedMetadata" is the
\* exception plistlib.load raises, which is not one.
read_info_plist(app_path) ==
    IF fs[app_path].plist.st = "missing" THEN "MissingMetadata"
    ELSE IF fs[app_path].plist.st = "malformed" THEN "MalformedMetadata"
    ELSE "ok"

----------------------------------------------------------------------------
(* Icon Resolver *)

NonEmpty(e) == e # <<>>

\* The primary icon's list read before the CFBundleIconFiles list.
IconCandidatesPrimaryFirst(info) ==
    (IF info.iconFile # <<>> THEN <<info.iconFile>> ELSE <<>>)
        \o SelectSeq(info.primaryFiles, NonEmpty)
        \o SelectSeq(info.iconFiles, NonEmpty)

_icon_candidates(info) ==
    (IF info.iconFile # <<>> THEN <<info.iconFile>> ELSE <<>>)
        \o SelectSeq(info.iconFiles, NonEmpty)
        \o SelectSeq(info.primaryFiles, NonEmpty)

\* resources / candidate, with ".icns" appended when the name has no suffix;
\* relative to Contents/Resources
CandidatePath(candidate) ==
    IF PathSuffix(candidate) = <<>> THEN candidate \o DotIcns ELSE candidate

RECURSIVE FirstExisting(_, _)
FirstExisting(cands, files) ==
    IF cands = <<>> THEN <<>>
    ELSE IF CandidatePath(Head(cands)) \in files
         THEN CandidatePath(Head(cands))
         ELSE FirstExisting(Tail(cands), files)

\* resources.glob("*.icns")
GlobIcns(files) == {f \in files : RFind(f, "/") = 0 /\ EndsWith(f, DotIcns)}

\* sorted(...)[0]
FirstSorted(names) == CHOOSE f \in names : \A g \in names : g = f \/ StrLess(f, g)

\* files: the paths, relative to Contents/Resources, of the files that exist
\* (none when the directory is absent).  The result is relative to
\* Contents/Resources; <<>> is IconkeepError.
resolve_icon_path(files, info) ==
    IF FirstExisting(_icon_candidates(info), files) # <<>>
    THEN FirstExisting(_icon_candidates(info), files)
    ELSE IF GlobIcns(files) # {} THEN FirstSorted(GlobIcns(files))
         ELSE <<>>

FilesOf(app_path) == {f \in ResNames : fs[app_path].res[f] # 0}

----------------------------------------------------------------------------
(* Record Store *)

DataDir == <<"/", "b">>   \* data_dir(): <XDG_DATA_HOME>/iconkeep/backups
IconFileName == <<"i", "c", "o", "n">> \o DotIcns

\* Every slug a backup can write under: a bundle identifier or a base name.
Slugs == Ids \cup {PathStem(b) : b \in BundlePaths}

\* backup_root / "icon.icns"
IconPathFor(slug) == Join(Join(DataDir, slug), IconFileName)

\* The record built with two of its fields in each other's place.
MkManifestSwapped(app_path, bundle_id, display_name, icon_relpath, backup_path) ==
    [st |-> "ok", app_path |-> app_path, bundle_id |-> display_name,
     display_name |-> bundle_id, icon_relpath |-> icon_relpath,
     backup_path |-> backup_path]

\* BackupRecord as json.dump writes it.  The timestamp is left out: nothing
\* reads it back.
MkManifest(app_path, bundle_id, display_name, icon_relpath, backup_path) ==
    [st |-> "ok", app_path |-> app_path, bundle_id |-> bundle_id,
     display_name |-> display_name, icon_relpath |-> icon_relpath,
     backup_path |-> backup_path]

\* no manifest.json in the slug's directory
NoManifest ==
    [st |-> "none", app_path |-> <<>>, bundle_id |-> <<>>, display_name |-> <<>>,
     icon_relpath |-> <<>>, backup_path |-> <<>>]

\* a manifest.json that json.load, or BackupRecord(**data), rejects
CorruptManifest == [NoManifest EXCEPT !.st = "corrupt"]

NoEntry == [man |-> NoManifest, icon |-> 0]

manifest_path_for(slug) == slug

\* The manifest file at a candidate path; a slug no backup can write under
\* has none.
ManifestAt(path) == IF path \in Slugs THEN store[path].man ELSE NoManifest

\* The content of the file at an absolute backup path, 0 if there is none.
FileAt(backup_path) ==
    IF \E s \in Slugs : IconPathFor(s) = backup_path
    THEN store[CHOOSE s \in Slugs : IconPathFor(s) = backup_path].icon
    ELSE 0

slug_for(app_path, bundle_id) ==
    IF bundle_id # <<>> THEN bundle_id ELSE PathStem(app_path)

\* Path(record.backup_path).parent / "manifest.json", opened "w" and dumped
write_manifest(st, record) ==
    LET slug == PathName(PathParent(record.backup_path))
    IN  [st EXCEPT ![slug].man = record]

\* The first candidate that exists is loaded; json.load raising on it ends
\* the call with that exception ("CorruptManifest"), which is no IconkeepError.
RECURSIVE load_manifest(_)
load_manifest(paths) ==
    IF paths = <<>> THEN [err |-> "NoManifest", path |-> <<>>, man |-> NoManifest]
    ELSE IF ManifestAt(Head(paths)).st # "none"
         THEN [err |-> IF ManifestAt(Head(paths)).st = "ok" THEN "ok"
                       ELSE "CorruptManifest",
               path |-> Head(paths), man |-> ManifestAt(Head(paths))]
         ELSE load_manifest(Tail(paths))

\* The base name probed before the identifier.
PossibleManifestsNameFirst(app_name, app_path, bundle_id) ==
    << PathStem(app_path) >>
        \o (IF bundle_id # <<>> THEN <<bundle_id>> ELSE <<>>)
        \o << normalize_app_name(app_name) >>

\* restore's candidates: the identifier's slug when the bundle has one, the
\* bundle's base name, the normalized reference
possible_manifests(app_name, app_path, bundle_id) ==
    (IF bundle_id # <<>> THEN <<manifest_path_for(bundle_id)>> ELSE <<>>)
        \o << manifest_path_for(PathStem(app_path)),
              manifest_path_for(normalize_app_name(app_name)) >>

IsIconkeepError(e) ==
    e \in {"InvalidBundle", "NotFound", "MissingMetadata", "IconNotFound",
           "NoManifest", "MissingBackupFile"}

----------------------------------------------------------------------------
(* Backup/Restore Orchestrator *)

\* What a command did: res is "ok" or the error that ended it, path the
\* bundle located, slug the slug written under or read from, rel the icon's
\* bundle-relative path, prev the slug's store entry before a backup (after
\* a restore, prev.icon is what the restored file held before).
Outcome(op, ref, res, path, slug, rel, prev) ==
    [op |-> op, ref |-> ref, res |-> res, path |-> path, slug |-> slug,
     rel |-> rel, prev |-> prev]

NoOp == Outcome("none", <<>>, "ok", <<>>, <<>>, <<>>, NoEntry)

\* str(icon_path.relative_to(app_path))
\* The icon assumed to be at one fixed place of the bundle.
IconRelpathFixed(icon_path, app_path) == Join(ResourcesRel, IcnsA)
icon_relpath_of(icon_path, app_path) == RelativeTo(icon_path, app_path)

\* shutil.copy2(src, dst): dst ends with the content of src
\* A copy that leaves an existing destination alone.
CopyKeepExisting(src, dst) == IF dst # 0 THEN dst ELSE src
copy2(src, dst) == src

\* The two writes of backup, in the code's order: the icon copy, then the
\* manifest.  fault says which write fails, and how far it got:
\*   "none"               both succeed
\*   "copy_unopened"      copy2 fails before it opens the destination
\*   "copy_truncated"     copy2 fails part way: a truncated icon.icns
\*   "copy_stat"          copy2 fails in copystat: the content is whole
\*   "manifest_unopened"  open(manifest, "w") fails
\*   "manifest_truncated" json.dump fails part way: an unparsable manifest
\* (BackupWritesManifestFirst: the same, the manifest written first.)
BackupWritesManifestFirst(st, slug, content, record, fault) ==
    LET written == write_manifest(st, record)
    IN  CASE fault = "none" -> [written EXCEPT ![slug].icon = copy2(content, @)]
          [] fault = "copy_unopened" -> written
          [] fault = "copy_truncated" -> [written EXCEPT ![slug].icon = 0 - content]
          [] fault = "copy_stat" -> [written EXCEPT ![slug].icon = copy2(content, @)]
          [] fault = "manifest_unopened" -> st
          [] fault = "manifest_truncated" -> [st EXCEPT ![slug].man = CorruptManifest]
BackupWrites(st, slug, content, record, fault) ==
    LET copied == [st EXCEPT ![slug].icon = copy2(content, @)]
    IN  CASE fault = "none" -> write_manifest(copied, record)
          [] fault = "copy_unopened" -> st
          [] fault = "copy_truncated" -> [st EXCEPT ![slug].icon = 0 - content]
          [] fault = "copy_stat" -> copied
          [] fault = "manifest_unopened" -> copied
          [] fault = "manifest_truncated" -> [copied EXCEPT ![slug].man = CorruptManifest]

Faults ==
    {"copy_unopened", "copy_truncated", "copy_stat", "manifest_unopened",
     "manifest_truncated"}

\* backup(app_name), the bundle search having given r: the outcome and the
\* store afterwards.  CFBundleName is not modelled, so display_name is the
\* bundle's base name.
backup(app_name, r, fault) ==
    IF r.err # "ok"
    THEN [out |-> Outcome("backup", app_name, r.err, <<>>, <<>>, <<>>, NoEntry),
          store |-> store]
    ELSE IF read_info_plist(r.path) # "ok"
    THEN [out |-> Outcome("backup", app_name, read_info_plist(r.path), r.path,
                          <<>>, <<>>, NoEntry),
          store |-> store]
    ELSE IF resolve_icon_path(FilesOf(r.path), fs[r.path].plist) = <<>>
    THEN [out |-> Outcome("backup", app_name, "IconNotFound", r.path, <<>>, <<>>,
                          NoEntry),
          store |-> store]
    ELSE
        LET info == fs[r.path].plist
            icon == resolve_icon_path(FilesOf(r.path), info)
            icon_path == Join(Join(r.path, ResourcesRel), icon)
            slug == slug_for(r.path, info.bid)
            backup_icon_path == IconPathFor(slug)
            record == MkManifest(r.path, info.bid, PathStem(r.path),
                                 icon_relpath_of(icon_path, r.path),
                                 backup_icon_path)
        IN  [out |-> Outcome("backup", app_name,
                             IF fault = "none" THEN "ok" ELSE "OSError",
                             r.path, slug, record.icon_relpath, store[slug]),
             store |-> BackupWrites(store, slug, fs[r.path].res[icon], record, fault)]

\* icon_target = app_path / manifest.icon_relpath: the bundle written into
\* (RestoreTargetStored: the bundle path the manifest stores instead.)
RestoreTargetStored(app_path, manifest) == manifest.app_path
RestoreTarget(app_path, manifest) == app_path

\* icon_target.parent.mkdir(parents=True); shutil.copy2(backup, icon_target)
WriteBundleFile(f, bundle, rel, content) ==
    [f EXCEPT ![bundle].dir = TRUE,
              ![bundle].res[RelativeTo(rel, ResourcesRel)] = copy2(content, @)]

\* restore(app_name), the bundle search having given r: the outcome and the
\* disk afterwards.
restore(app_name, r) ==
    IF r.err # "ok"
    THEN [out |-> Outcome("restore", app_name, r.err, <<>>, <<>>, <<>>, NoEntry),
          fs |-> fs]
    ELSE IF read_info_plist(r.path) # "ok"
    THEN [out |-> Outcome("restore", app_name, read_info_plist(r.path), r.path,
                          <<>>, <<>>, NoEntry),
          fs |-> fs]
    ELSE
        LET bundle_id == fs[r.path].plist.bid
            found == load_manifest(possible_manifests(app_name, r.path, bundle_id))
            manifest == found.man
        IN  IF found.err # "ok"
            THEN [out |-> Outcome("restore", app_name, found.err, r.path,
                                  found.path, <<>>, NoEntry),
                  fs |-> fs]
            ELSE IF FileAt(manifest.backup_path) = 0
            THEN [out |-> Outcome("restore", app_name, "MissingBackupFile", r.path,
                                  found.path, manifest.icon_relpath, NoEntry),
                  fs |-> fs]
            ELSE [out |-> Outcome("restore", app_name, "ok", r.path, found.path,
                                  manifest.icon_relpath,
                                  [NoEntry EXCEPT !.icon =
                                      fs[r.path].res[RelativeTo(manifest.icon_relpath,
                                                                ResourcesRel)]]),
                  fs |-> WriteBundleFile(fs, RestoreTarget(r.path, manifest),
                                         manifest.icon_relpath,
                                         FileAt(manifest.backup_path))]

----------------------------------------------------------------------------
(* History *)

NoBackup == [has |-> FALSE, content |-> 0, rel |-> <<>>, slug |-> <<>>, clean |-> FALSE]

NoHistory ==
    [app |-> [a \in Apps |-> NoBackup],
     slug |-> [s \in Slugs |-> [content |-> 0, app |-> 0, before |-> 0]]]

\* Something other than an icon's content changed: no backup is any longer
\* directly followed by what comes next.
Dirty(h) == [h EXCEPT !.app = [a \in Apps |-> [h.app[a] EXCEPT !.clean = FALSE]]]

\* The content of the bundle file at a bundle-relative path under
\* Contents/Resources.
BundleFile(path, rel) == fs[path].res[RelativeTo(rel, ResourcesRel)]

AfterBackup(h, out) ==
    IF out.res = "ok"
    THEN [app |-> [a \in Apps |->
                    IF a = fs[out.path].app
                    THEN [has |-> TRUE, content |-> BundleFile(out.path, out.rel),
                          rel |-> out.rel, slug |-> out.slug, clean |-> TRUE]
                    ELSE [h.app[a] EXCEPT !.clean = FALSE]],
          slug |-> [h.slug EXCEPT ![out.slug] =
                        [content |-> BundleFile(out.path, out.rel),
                         app |-> fs[out.path].app,
                         before |-> h.slug[out.slug].content]]]
    ELSE IF out.res = "OSError" THEN Dirty(h)
    ELSE h

----------------------------------------------------------------------------
(* Commands *)

\* The batch loop of main(): the command, the app list, the index of the
\* entry at hand, the failures collected, what was printed to stderr, and
\* status: "idle", "running", "exit0", "exit1" (sys.exit(1)) or "traceback"
\* (an exception nothing catches: the interpreter prints it and exits 1).
NoBatch ==
    [cmd |-> "none", list |-> <<>>, i |-> 0, failures |-> <<>>,
     reported |-> <<>>, status |-> "idle"]

\* User-typed references.
RefAFoo == Join(RootA, FooApp)
RefUFoo == Join(RootU, FooApp)
RefName == <<"F", "O", "O", ".", "A", "P", "P">>
RefBar == <<" ", "b", "a", "r">>
RefInner == Join(Join(RootA, FooApp), InfoPlistRel)
RefRoot == RootA
RefNone == <<"X">>

Refs == {RefAFoo, RefUFoo, RefName, RefBar, RefInner, RefRoot, RefNone}

ApplyBackup(app_name, fault) ==
    \E r \in find_app_bundle(app_name) :
        \E done \in {backup(app_name, r, fault)} :
            /\ store' = done.store
            /\ lastOp' = done.out
            /\ bk' = AfterBackup(bk, done.out)
            /\ fs' = fs

ApplyRestore(app_name) ==
    \E r \in find_app_bundle(app_name) :
        \E done \in {restore(app_name, r)} :
            /\ fs' = done.fs
            /\ lastOp' = done.out
            /\ UNCHANGED <<store, bk>>

Idle == batch.status # "running"

\* iconkeep backup <app>
Backup(app_name) ==
    /\ Idle /\ opsLeft > 0
    /\ ApplyBackup(app_name, "none")
    /\ opsLeft' = opsLeft - 1
    /\ UNCHANGED <<envLeft, batch, pin, pout>>

\* iconkeep restore <app>
Restore(app_name) ==
    /\ Idle /\ opsLeft > 0
    /\ ApplyRestore(app_name)
    /\ opsLeft' = opsLeft - 1
    /\ UNCHANGED <<envLeft, batch, pin, pout>>

\* iconkeep backup <app>, one of the two writes failing
BackupFault(app_name, fault) ==
    /\ Idle /\ opsLeft > 0
    /\ ApplyBackup(app_name, fault)
    /\ lastOp'.res = "OSError"
    /\ opsLeft' = opsLeft - 1
    /\ UNCHANGED <<envLeft, batch, pin, pout>>

----------------------------------------------------------------------------
(* The environment: what happens to the disk between commands *)

EnvStep ==
    /\ Idle /\ envLeft > 0
    /\ envLeft' = envLeft - 1
    /\ lastOp' = NoOp
    /\ UNCHANGED <<opsLeft, batch, pin, pout>>

\* An icon file of a bundle is replaced, created or deleted.
SetIcon(b, f, c) ==
    /\ EnvStep
    /\ fs[b].dir /\ fs[b].res[f] # c
    /\ fs' = [fs EXCEPT ![b].res[f] = c]
    /\ UNCHANGED <<store, bk>>

\* An update changes the bundle's metadata.
SetPlist(b, pl) ==
    /\ EnvStep
    /\ fs[b].dir /\ fs[b].plist # pl
    /\ fs' = [fs EXCEPT ![b].plist = pl]
    /\ bk' = Dirty(bk)
    /\ UNCHANGED store

\* The bundle is moved or renamed.
MoveBundle(b, q) ==
    /\ EnvStep
    /\ fs[b].dir /\ ~fs[q].dir
    /\ fs' = [fs EXCEPT ![q] = fs[b], ![b] = NoDir]
    /\ bk' = Dirty(bk)
    /\ UNCHANGED store

\* A crash in mid-write leaves an unparsable manifest.
CorruptRecord(s) ==
    /\ EnvStep
    /\ store[s].man.st = "ok"
    /\ store' = [store EXCEPT ![s].man = CorruptManifest]
    /\ bk' = Dirty(bk)
    /\ UNCHANGED fs

\* Manual cleanup removes a backed-up icon.
DeleteBackupIcon(s) ==
    /\ EnvStep
    /\ store[s].icon # 0
    /\ store' = [store EXCEPT ![s].icon = 0]
    /\ bk' = Dirty(bk)
    /\ UNCHANGED fs

\* The metadata an update may leave.
Plists ==
    {NoPlist, [NoPlist EXCEPT !.st = "malformed"]}
        \cup {MkPlist("ok", bid, iconFile, <<>>, <<>>) :
                bid \in Ids \cup {<<>>}, iconFile \in {<<>>, <<"b">>}}

Env ==
    \/ \E b \in BundlePaths, f \in ResNames, c \in 0..MaxContent : SetIcon(b, f, c)
    \/ \E b \in BundlePaths, pl \in Plists : SetPlist(b, pl)
    \/ \E b, q \in BundlePaths : MoveBundle(b, q)
    \/ \E s \in Slugs : CorruptRecord(s)
    \/ \E s \in Slugs : DeleteBackupIcon(s)

----------------------------------------------------------------------------
(* Specifications *)

InitDisk ==
    [b \in BundlePaths |->
        IF b = Join(RootA, FooApp)
        THEN [dir |-> TRUE, app |-> 1,
              plist |-> MkPlist("ok", IdX, <<>>, <<>>, <<>>),
              res |-> [f \in ResNames |-> IF f = IcnsA THEN 1 ELSE 0]]
        ELSE IF b = Join(RootU, FooApp)
        THEN [dir |-> TRUE, app |-> 2,
              plist |-> MkPlist("ok", <<>>, <<"b">>, <<>>, <<>>),
              res |-> [f \in ResNames |-> IF f = IcnsB THEN MaxContent ELSE 1]]
        ELSE NoDir]

Init ==
    /\ fs = InitDisk
    /\ store = [s \in Slugs |-> NoEntry]
    /\ lastOp = NoOp
    /\ bk = NoHistory
    /\ envLeft = MaxEnv
    /\ opsLeft = MaxOps
    /\ batch = NoBatch
    /\ pin = <<>>
    /\ pout = <<>>

Next ==
    \/ \E app_name \in Refs : Backup(app_name)
    \/ \E app_name \in Refs : Restore(app_name)
    \/ Env

Spec == Init /\ [][Next]_vars

----------------------------------------------------------------------------
(* Properties of the backup/restore lifecycle *)

\* The application whose bundle the last command located.
LastApp == fs[lastOp.path].app

RestoreDone == lastOp.op = "restore" /\ lastOp.res = "ok"

\* C1: round trip.  When a successful backup of a bundle is followed, after
\* nothing but changes to icon file contents, by a restore that locates the
\* same bundle, the restore succeeds and the file at <bundle>/<icon_relpath>
\* holds the content the icon had when the backup ran, icon_relpath being
\* the relative path that backup resolved.
C1_RoundTrip ==
    (lastOp.op = "restore" /\ lastOp.path # <<>> /\ bk.app[LastApp].clean)
        => /\ lastOp.res = "ok"
           /\ lastOp.rel = bk.app[LastApp].rel
           /\ BundleFile(lastOp.path, bk.app[LastApp].rel) = bk.app[LastApp].content

\* A round trip over a changed icon that is not the first *.icns of the bundle.
C1_Witness ==
    /\ RestoreDone /\ bk.app[LastApp].clean
    /\ lastOp.prev.icon # bk.app[LastApp].content
    /\ bk.app[LastApp].rel = Join(ResourcesRel, IcnsB)
    /\ BundleFile(lastOp.path, Join(ResourcesRel, IcnsB)) = bk.app[LastApp].content

\* C2 as stated: a successful restore of an application that has been backed
\* up installs the content its most recent backup captured.
C2_RestoresOwnLatest ==
    (RestoreDone /\ bk.app[LastApp].has)
        => BundleFile(lastOp.path, lastOp.rel) = bk.app[LastApp].content

\* C2 amended: a successful backup leaves its slug holding this backup's
\* manifest and icon; a successful restore installs the content captured by
\* the most recent backup stored under the slug it selected, which is the
\* application's own most recent backup when that backup was stored under
\* the selected slug and no other bundle was backed up under it since.
C2_RestoresSlugLatest ==
    /\ (lastOp.op = "backup" /\ lastOp.res = "ok")
        => /\ store[lastOp.slug].icon = bk.slug[lastOp.slug].content
           /\ store[lastOp.slug].icon = BundleFile(lastOp.path, lastOp.rel)
           /\ store[lastOp.slug].man.st = "ok"
           /\ store[lastOp.slug].man.icon_relpath = lastOp.rel
           /\ store[lastOp.slug].man.app_path = lastOp.path
    /\ RestoreDone
        => /\ BundleFile(lastOp.path, lastOp.rel) = bk.slug[lastOp.slug].content
           /\ (bk.slug[lastOp.slug].app = LastApp /\ bk.app[LastApp].slug = lastOp.slug)
                => BundleFile(lastOp.path, lastOp.rel) = bk.app[LastApp].content

\* A restore from a slug that was backed up twice, with different contents.
C2_Witness ==
    /\ RestoreDone
    /\ bk.slug[lastOp.slug].before \notin {0, bk.slug[lastOp.slug].content}
    /\ BundleFile(lastOp.path, lastOp.rel) = bk.slug[lastOp.slug].content

\* The candidates the restore just run had: identifier, base name,
\* normalized reference.
LastProbes ==
    << fs[lastOp.path].plist.bid, PathStem(lastOp.path),
       normalize_app_name(lastOp.ref) >>

\* The restore just run got as far as looking a manifest up.
LookedUp ==
    /\ lastOp.op = "restore" /\ lastOp.path # <<>>
    /\ fs[lastOp.path].plist.st = "ok"

Hits == {i \in 1..3 : ManifestAt(LastProbes[i]).st # "none"}

\* C3: slug fallback.  A restore probes the slugs in the order identifier,
\* base name, normalized reference and uses the first under which a manifest
\* exists; so a manifest stored under the live bundle's identifier is the one
\* found, whatever reference located the bundle.
C3_SlugFallback ==
    LookedUp =>
        /\ (Hits = {}) <=> (lastOp.res = "NoManifest")
        /\ \A i \in Hits : (\A j \in Hits : i <= j) => lastOp.slug = LastProbes[i]
        /\ (fs[lastOp.path].plist.bid # <<>> /\ ManifestAt(fs[lastOp.path].plist.bid).st = "ok")
            => /\ lastOp.slug = fs[lastOp.path].plist.bid
               /\ lastOp.res \in {"ok", "MissingBackupFile"}

\* A restore by a raw name that normalizes to something else than the
\* identifier, the manifest being under the identifier's slug and another
\* one under the base name.
C3_Witness ==
    /\ RestoreDone /\ lastOp.ref = RefName
    /\ normalize_app_name(lastOp.ref) # fs[lastOp.path].plist.bid
    /\ lastOp.slug = fs[lastOp.path].plist.bid
    /\ ManifestAt(PathStem(lastOp.path)).st = "ok"

\* C6: a restore writes the backed-up icon to
\* <bundle located now>/<manifest.icon_relpath> and changes no other file of
\* the disk, in particular none under the app_path the manifest stores.
C6_RestoreTarget ==
    [][(lastOp'.op = "restore" /\ lastOp'.res = "ok")
        => /\ fs'[lastOp'.path].res[RelativeTo(lastOp'.rel, ResourcesRel)]
                = FileAt(ManifestAt(lastOp'.slug).backup_path)
           /\ lastOp'.rel = ManifestAt(lastOp'.slug).icon_relpath
           /\ \A b \in BundlePaths :
                /\ fs'[b].dir = fs[b].dir /\ fs'[b].plist = fs[b].plist
                /\ \A f \in ResNames :
                    (b # lastOp'.path \/ f # RelativeTo(lastOp'.rel, ResourcesRel))
                        => fs'[b].res[f] = fs[b].res[f]]_vars

\* A restore into a bundle that has moved since the backup, its old place
\* being empty and its icon having changed.
C6_Witness ==
    /\ RestoreDone
    /\ ManifestAt(lastOp.slug).app_path # lastOp.path
    /\ ~fs[ManifestAt(lastOp.slug).app_path].dir
    /\ lastOp.prev.icon # BundleFile(lastOp.path, lastOp.rel)

GoodHits == {i \in 1..3 : ManifestAt(LastProbes[i]).st = "ok"}

\* C7 as stated: the read returns the first candidate that exists and
\* parses, an unparsable one not stopping the search, and fails with
\* NoManifest exactly when no candidate exists.
C7_ReadSkipsUnparsable ==
    LookedUp =>
        /\ (Hits = {}) <=> (lastOp.res = "NoManifest")
        /\ \A i \in GoodHits :
            (\A j \in GoodHits : i <= j)
                => /\ lastOp.slug = LastProbes[i]
                   /\ lastOp.res \in {"ok", "MissingBackupFile"}

\* C10 as stated: when the live bundle has an identifier and restore
\* succeeds, the manifest used records that identifier.
C10_SameIdentity ==
    (RestoreDone /\ fs[lastOp.path].plist.bid # <<>>)
        => ManifestAt(lastOp.slug).bundle_id = fs[lastOp.path].plist.bid

\* C10 amended: when the live bundle has an identifier and restore succeeds
\* with the manifest found under that identifier's slug, a bundle_id the
\* manifest records is that identifier.  (Found under the base name or the
\* normalized reference, the record may be of another identity or of none.)
C10_IdentityUnderIdentifierSlug ==
    (RestoreDone /\ fs[lastOp.path].plist.bid # <<>>
        /\ lastOp.slug = fs[lastOp.path].plist.bid
        /\ ManifestAt(lastOp.slug).bundle_id # <<>>)
        => ManifestAt(lastOp.slug).bundle_id = fs[lastOp.path].plist.bid

C10_Witness ==
    /\ RestoreDone /\ fs[lastOp.path].plist.bid = IdX
    /\ lastOp.slug = IdX
    /\ ManifestAt(lastOp.slug).bundle_id = IdX

----------------------------------------------------------------------------
(* Backups whose writes can fail *)

NextFault ==
    \/ Next
    \/ \E app_name \in Refs, fault \in Faults : BackupFault(app_name, fault)

SpecFault == Init /\ [][NextFault]_vars

\* The record and the content of the backup just run.
IsThisBackup(entry, out) ==
    /\ entry.man.st = "ok"
    /\ entry.man.app_path = out.path
    /\ entry.man.icon_relpath = out.rel
    /\ entry.icon = BundleFile(out.path, out.rel)

\* C9 as stated: whatever step a backup fails at, every slug's manifest and
\* icon.icns are afterwards both as they were before the call or both from
\* this backup.
C9_NoPartialState ==
    [][lastOp'.op = "backup"
        => \A s \in Slugs : store'[s] = store[s] \/ IsThisBackup(store'[s], lastOp')]_vars

\* C9 amended: the manifest is written only after the icon copy has
\* succeeded, so a manifest this backup wrote is paired with this backup's
\* icon; a backup that fails at locate, read metadata or resolve icon changes
\* nothing; one that fails at the icon copy leaves every manifest as it was;
\* one that fails at the manifest write leaves the slug's manifest as it was
\* or unparsable.  No other slug is touched.
C9_ManifestAfterCopy ==
    [][lastOp'.op = "backup"
        => /\ \A s \in Slugs : s # lastOp'.slug => store'[s] = store[s]
           /\ lastOp'.res = "ok" => IsThisBackup(store'[lastOp'.slug], lastOp')
           /\ lastOp'.res # "ok" =>
                \A s \in Slugs :
                    \/ store'[s].man = store[s].man
                    \/ /\ store'[s].man = CorruptManifest
                       /\ store'[s].icon = BundleFile(lastOp'.path, lastOp'.rel)
           /\ lastOp'.res \notin {"ok", "OSError"} => store' = store]_vars

\* A failed backup has replaced the icon of a slug whose earlier manifest,
\* of another icon path, is still in place.
C9_Witness ==
    /\ lastOp.op = "backup" /\ lastOp.res = "OSError"
    /\ store[lastOp.slug].man = lastOp.prev.man
    /\ store[lastOp.slug].man.st = "ok"
    /\ store[lastOp.slug].icon # lastOp.prev.icon
    /\ store[lastOp.slug].icon > 0

----------------------------------------------------------------------------
(* Batch mode: main() without an app argument *)

BatchRefs == {RefAFoo, RefUFoo, RefNone}

RECURSIVE SeqsUpTo(_, _)
SeqsUpTo(S, n) ==
    IF n = 0 THEN {<<>>}
    ELSE SeqsUpTo(S, n - 1)
            \cup {Append(q, x) : q \in {p \in SeqsUpTo(S, n - 1) : Len(p) = n - 1}, x \in S}

\* The app lists load_app_list may return; for a missing file or a file
\* without entries (the empty list here) it raises IconkeepError.
AppLists == SeqsUpTo(BatchRefs, MaxList)

\* main(), args.app empty: load_app_list(), then the loop is entered
BatchStart(cmd, list) ==
    /\ Idle /\ opsLeft > 0
    /\ opsLeft' = opsLeft - 1
    /\ batch' = [cmd |-> cmd, list |-> list, i |-> 1, failures |-> <<>>,
                 reported |-> IF list = <<>> THEN << <<<<>>, "NoApps">> >> ELSE <<>>,
                 status |-> IF list = <<>> THEN "exit1" ELSE "running"]
    /\ lastOp' = NoOp
    /\ UNCHANGED <<fs, store, bk, envLeft, pin, pout>>

\* One turn of the loop: the command on the entry at hand.  An IconkeepError
\* is collected and the loop goes on; any other exception leaves the loop,
\* and main(), at once.
BatchStep ==
    /\ batch.status = "running" /\ batch.i <= Len(batch.list)
    /\ IF batch.cmd = "backup"
       THEN ApplyBackup(batch.list[batch.i], "none")
       ELSE ApplyRestore(batch.list[batch.i])
    /\ batch' =
        IF lastOp'.res = "ok" THEN [batch EXCEPT !.i = @ + 1]
        ELSE IF IsIconkeepError(lastOp'.res)
        THEN [batch EXCEPT !.i = @ + 1,
                           !.failures = Append(@, <<batch.list[batch.i], lastOp'.res>>)]
        ELSE [batch EXCEPT !.status = "traceback"]
    /\ UNCHANGED <<envLeft, opsLeft, pin, pout>>

\* After the loop: the failures are printed and the exit status is set.
BatchExit ==
    /\ batch.status = "running" /\ batch.i > Len(batch.list)
    /\ batch' = [batch EXCEPT !.reported = batch.failures,
                              !.status = IF batch.failures # <<>> THEN "exit1"
                                         ELSE "exit0"]
    /\ UNCHANGED <<fs, store, lastOp, bk, envLeft, opsLeft, pin, pout>>

NextBatch ==
    \/ \E cmd \in {"backup", "restore"}, list \in AppLists : BatchStart(cmd, list)
    \/ BatchStep
    \/ BatchExit
    \/ Env

SpecBatch == Init /\ [][NextBatch]_vars

BatchOver == batch.status \in {"exit0", "exit1", "traceback"} /\ batch.list # <<>>

\* Entries the loop has attempted.
Attempted == IF batch.status = "traceback" THEN batch.i ELSE batch.i - 1

\* C4 as stated: in batch mode every entry of the list is attempted whatever
\* error an earlier entry ended with, each failure is reported, and the exit
\* status is 1 exactly when an entry failed.
C4_BatchAttemptsAll ==
    BatchOver =>
        /\ Attempted = Len(batch.list)
        /\ batch.reported = batch.failures
        /\ (batch.status = "exit0") <=> (batch.failures = <<>>)

----------------------------------------------------------------------------
(* The Icon Resolver on its own *)

PngX == <<"x", ".", "p", "n", "g">>

\* Entries an icon key of Info.plist may hold: an empty one, a name without
\* extension, a name with the icon extension, a name with another one.
IconEntries == {<<>>, <<"a">>, IcnsB, PngX}

\* Files Contents/Resources may hold.
IconFiles == {IcnsA, IcnsB, PngX}

IconInputs ==
    [info : {MkPlist("ok", <<>>, iconFile, iconFiles, primaryFiles) :
                iconFile \in IconEntries,
                iconFiles \in SeqsUpTo(IconEntries, MaxNames),
                primaryFiles \in SeqsUpTo(IconEntries, MaxNames)},
     files : SUBSET IconFiles]

InitIcon ==
    /\ fs = InitDisk
    /\ store = [s \in Slugs |-> NoEntry]
    /\ lastOp = NoOp
    /\ bk = NoHistory
    /\ envLeft = 0
    /\ opsLeft = 0
    /\ batch = NoBatch
    /\ pin \in IconInputs
    /\ pout = [done |-> FALSE, rel |-> <<>>]

ResolveIcon ==
    /\ ~pout.done
    /\ pout' = [done |-> TRUE, rel |-> resolve_icon_path(pin.files, pin.info)]
    /\ UNCHANGED <<fs, store, lastOp, bk, envLeft, opsLeft, batch, pin>>

SpecIcon == InitIcon /\ [][ResolveIcon]_vars

\* The candidate names in the order of the claim, the empty ones kept.
NamesInOrder == <<pin.info.iconFile>> \o pin.info.iconFiles \o pin.info.primaryFiles

\* The file a candidate name stands for: ".icns" appended when the name has
\* no extension.
FileOfName(n) == IF PathSuffix(n) = <<>> THEN n \o DotIcns ELSE n

Resolving ==
    {i \in 1..Len(NamesInOrder) :
        NamesInOrder[i] # <<>> /\ FileOfName(NamesInOrder[i]) \in pin.files}

IcnsIn(files) == {f \in files : EndsWith(f, DotIcns)}

\* C5: resolveIcon returns the file of the first candidate name that exists,
\* the candidates being the icon-filename field, the icon-filenames list and
\* the primary icon's list, in this order (empty entries skipped, ".icns"
\* appended when the name has no extension); when no candidate resolves it
\* returns the lexicographically first *.icns file of Contents/Resources, and
\* then it fails exactly when there is no such file.
C5_ResolveIcon ==
    pout.done =>
        /\ \A i \in Resolving :
            (\A j \in Resolving : i <= j) => pout.rel = FileOfName(NamesInOrder[i])
        /\ Resolving = {} =>
            /\ (pout.rel = <<>>) <=> (IcnsIn(pin.files) = {})
            /\ pout.rel # <<>> =>
                /\ pout.rel \in IcnsIn(pin.files)
                /\ \A f \in IcnsIn(pin.files) : f = pout.rel \/ StrLess(pout.rel, f)

\* The field names a missing file, the list's first entry is empty and its
\* second, without extension, resolves, ahead of the primary icon's entry
\* and of the first *.icns file.
C5_Witness ==
    /\ pout.done
    /\ pin.info.iconFile = IcnsB /\ IcnsB \notin pin.files
    /\ pin.info.iconFiles = << <<>>, PngX >>
    /\ pin.info.primaryFiles = << <<"a">> >>
    /\ pin.files = {IcnsA, PngX}
    /\ pout.rel = PngX

\* No candidate resolves and the fallback picks the first of two *.icns.
C5_WitnessFallback ==
    /\ pout.done /\ Resolving = {}
    /\ pin.info.iconFile = PngX
    /\ pin.files = {IcnsA, IcnsB}
    /\ pout.rel = IcnsA

----------------------------------------------------------------------------
(* Name normalization and the search by name on their own *)

RECURSIVE Pad(_)
Pad(n) == IF n = 0 THEN <<>> ELSE <<" ">> \o Pad(n - 1)

\* Every spelling of s in upper and lower case letters.
RECURSIVE CaseVariants(_)
CaseVariants(s) ==
    IF s = <<>> THEN {<<>>}
    ELSE {<<c>> \o t : c \in {LowerChar(Head(s)), UpperChar(Head(s))},
                       t \in CaseVariants(Tail(s))}

BaseNames == {Foo, Bar}

\* A reference: blanks, a spelling of a base name, blanks, possibly a
\* spelling of ".app", blanks.
NameInputsOf(base) ==
    {[base |-> base, ext |-> ext, after |-> r,
      ref |-> Pad(l) \o name \o Pad(m) \o ext \o Pad(r)] :
        name \in CaseVariants(base), ext \in {<<>>} \cup CaseVariants(DotApp),
        l \in 0..MaxPad, m \in 0..MaxPad, r \in 0..MaxPad}

NameInputs == UNION {NameInputsOf(base) : base \in BaseNames}

DiskWith(S) ==
    [b \in BundlePaths |->
        IF b \in S
        THEN [dir |-> TRUE, app |-> 1, plist |-> MkPlist("ok", <<>>, <<>>, <<>>, <<>>),
              res |-> [f \in ResNames |-> 0]]
        ELSE NoDir]

InitNorm ==
    /\ fs \in {DiskWith(S) : S \in SUBSET BundlePaths}
    /\ store = [s \in Slugs |-> NoEntry]
    /\ lastOp = NoOp
    /\ bk = NoHistory
    /\ envLeft = 0
    /\ opsLeft = 0
    /\ batch = NoBatch
    /\ pin \in NameInputs
    /\ pout = [step |-> "none", key |-> <<>>, found |-> {}]

Normalize ==
    /\ pout.step = "none"
    /\ pout' = [step |-> "key", key |-> normalize_app_name(pin.ref), found |-> {}]
    /\ UNCHANGED <<fs, store, lastOp, bk, envLeft, opsLeft, batch, pin>>

FindByName ==
    /\ pout.step = "key"
    /\ pout' = [pout EXCEPT !.step = "found", !.found = find_app_bundle(pin.ref)]
    /\ UNCHANGED <<fs, store, lastOp, bk, envLeft, opsLeft, batch, pin>>

NextNorm == Normalize \/ FindByName

SpecNorm == InitNorm /\ [][NextNorm]_vars

\* The bundles whose name, ".app" and letter case apart, is the reference's.
SameName ==
    {b \in BundlePaths :
        fs[b].dir /\ Lower(PathStem(b)) = Lower(pin.base)}

====
